---------------------------- MODULE Spec2Model ----------------------------
(***************************************************************************)
(* The asynchronous dispatch pipeline of the notification system:          *)
(* Service.CreateNotification / GetNotification / UpdateNotificationStatus *)
(* (internal/notification), the Kafka producer and consume loop            *)
(* (internal/queue/kafka.go), the channel adapters (internal/channels) and *)
(* the per-channel worker handlers (cmd/*-service/main.go).                *)
(***************************************************************************)
EXTENDS Integers, Sequences, FiniteSets, TLC

(***************************************************************************)
(* Bounds of the model.                                                    *)
(***************************************************************************)
\* number of CreateNotification calls (and so of generated identifiers)
MaxNotifs == 2
\* number of status-update calls made through the gRPC transport
MaxUpdates == 1
\* number of redeliveries of a queue message to a consumer group
MaxRedeliver == 1
\* the latest scheduled_at a request names; the clock reads 1
MaxTime == 2
\* the latest reading of the clock in the single-outcome runs
MaxClock == 3
\* how often one outcome is applied to the store in the single-outcome runs
MaxApplications == 2

(***************************************************************************)
(* Program constants.                                                      *)
(***************************************************************************)
\* priority := 2 when the request leaves it unset
MediumPriority == 2

Ids == 1..MaxNotifs
\* a nil *time.Time / NULL timestamp column
NoTime == -1
Users == {"u1"}
Channels == {"email", "sms", "push"}

StatusPending == "pending"
StatusSent == "sent"
StatusDelivered == "delivered"
StatusFailed == "failed"
StatusCancelled == "cancelled"
Statuses == {StatusPending, StatusSent, StatusDelivered, StatusFailed, StatusCancelled}

\* pb.NotificationStatus, the enum of the gRPC transport
ProtoStatuses == {"UNSPECIFIED", "PENDING", "SENT", "DELIVERED", "FAILED", "CANCELLED"}

\* rows of user_preferences for one (user, channel); "none" is the absent row
PrefRows == {"none", "on", "off", "on_daily", "off_hourly"}
RowEnabled(row) == row \in {"on", "on_daily"}
RowFrequency(row) ==
    IF row = "on_daily" THEN "daily" ELSE IF row = "off_hourly" THEN "hourly" ELSE "immediate"
\* the table the model starts from: no row for email (the default applies),
\* a disabled row for sms, an enabled row for push
PrefTable ==
    [uc \in Users \X Channels |->
        IF uc[2] = "email" THEN "none" ELSE IF uc[2] = "sms" THEN "off" ELSE "on"]

VARIABLES
    now,          \* the clock read by time.Now()
    prefs,        \* user_preferences: [Users \X Channels -> PrefRows]
    store,        \* notifications table: identifier -> row
    topic,        \* the Kafka topic: the sequence of published messages
    offset,       \* per consumer group: how many messages it has read
    calls,        \* per CreateNotification call: position, request, result
    redelivered,  \* redeliveries so far
    updates,      \* gRPC status-update calls so far
    sends,        \* history: provider calls made per identifier
    workerWrites, \* history: has a worker's status write been applied to the identifier
    adminWrites,  \* history: has an update call's status write been applied to it
    handed,       \* history: the metadata of the notification last handed to an adapter
    lastStatus,   \* history: the status of the update applied last to the identifier
    api,          \* per transport request: the exchange at the REST or gRPC boundary
    lookup,       \* the last lookup exchange at the REST or gRPC boundary
    lab,          \* the outcome of one adapter send and its applications to the row
    routed,       \* the last routing of a notification by the channel registry
    loop,         \* per worker group: its consume loop, step by step
    cache,        \* the Redis keys of the preference cache: key -> entry
    resolved,     \* the last run of getUserPreferences
    manager,      \* a ChannelManager: its map, and its last routing
    exchange      \* the last status-update exchange at the gRPC boundary

vars == <<now, prefs, store, topic, offset, calls, redelivered, updates,
          sends, workerWrites, adminWrites, handed, lastStatus, api, lookup, lab,
          routed, loop, cache, resolved, manager, exchange>>

\* the registry routing and the stepwise consume loops
workerVars == <<routed, loop>>
\* the variables of the transports and of the single-outcome runs
\* the preference cache, a channel manager and the status-update exchange
unitVars == <<cache, resolved, manager, exchange>>
boundaryVars == <<api, lookup, lab, workerVars, unitVars>>
\* the history of the workers and of the status updates
historyVars == <<sends, workerWrites, adminWrites, handed, lastStatus>>

(***************************************************************************)
(* Service.getUserPreferences: the row of the store decides; the absent    *)
(* row is the default enabled=true, frequency=immediate.                   *)
(***************************************************************************)
DefaultPreference == [enabled |-> TRUE, frequency |-> "immediate"]

getUserPreferences(p, userID, channel) ==
    IF <<userID, channel>> \notin DOMAIN p \/ p[<<userID, channel>>] = "none"
    THEN DefaultPreference
    ELSE [enabled |-> RowEnabled(p[<<userID, channel>>]),
          frequency |-> RowFrequency(p[<<userID, channel>>])]

(***************************************************************************)
(* Service.CreateNotification, in its three suspension points: the         *)
(* preference lookup, the store insert, the queue publish.                 *)
(***************************************************************************)
\* the request as the transports hand it to the service
\* a nil map[string]string, and the metadata a caller supplies
NoMetadata == <<>>
SomeMetadata == ("campaign" :> "spring")

Requests ==
    { [userID |-> u, channel |-> c, recipient |-> "rcpt", subject |-> "subj",
       body |-> "text", priority |-> ps[1], scheduledAt |-> ps[2],
       metadata |-> SomeMetadata] :
        u \in Users, c \in Channels,
        ps \in {<<0, NoTime>>, <<1, 0>>, <<0, MaxTime>>} }

\* a call that has not begun; notification is the call's local *Notification
NoRequest ==
    [userID |-> "", channel |-> "", recipient |-> "", subject |-> "", body |-> "",
     priority |-> 0, scheduledAt |-> NoTime, metadata |-> NoMetadata]
NoNotification == [id |-> 0]
IdleCall ==
    [pc |-> "idle", req |-> NoRequest, notification |-> NoNotification,
     result |-> "none", published |-> "no"]

\* priority := req.Priority, 2 when unset
DefaultPriorityKept(p) == p
DefaultPriority(p) == IF p = 0 THEN MediumPriority ELSE p

\* the position after the preference gate: the insert, or the rejection
AfterPreferencesAlways(pref) == "insert"
AfterPreferences(pref) == IF pref.enabled THEN "insert" ELSE "disabled"

\* notification := &Notification{...} with Status: StatusPending
NewNotificationSent(id, req, t) ==
    [id |-> id, userID |-> req.userID, channel |-> req.channel,
     recipient |-> req.recipient, subject |-> req.subject, body |-> req.body,
     status |-> StatusSent, externalID |-> "", errorMessage |-> "",
     retryCount |-> 0, scheduledAt |-> req.scheduledAt,
     sentAt |-> NoTime, deliveredAt |-> NoTime, createdAt |-> t, updatedAt |-> t,
     metadata |-> req.metadata]
NewNotification(id, req, t) ==
    [id |-> id, userID |-> req.userID, channel |-> req.channel,
     recipient |-> req.recipient, subject |-> req.subject, body |-> req.body,
     status |-> StatusPending, externalID |-> "", errorMessage |-> "",
     retryCount |-> 0, scheduledAt |-> req.scheduledAt,
     sentAt |-> NoTime, deliveredAt |-> NoTime, createdAt |-> t, updatedAt |-> t,
     metadata |-> req.metadata]

\* req.ScheduledAt == nil || req.ScheduledAt.Before(time.Now())
ShouldPublishAlways(scheduledAt, t) == TRUE
ShouldPublish(scheduledAt, t) == scheduledAt = NoTime \/ scheduledAt < t

\* the columns the INSERT names (id, user_id, channel, recipient, subject,
\* body, status, scheduled_at, created_at, updated_at) and the defaults of
\* the others; the table has no metadata column
Row(n) ==
    [id |-> n.id, userID |-> n.userID, channel |-> n.channel,
     recipient |-> n.recipient, subject |-> n.subject, body |-> n.body,
     status |-> n.status, externalID |-> "", errorMessage |-> "",
     retryCount |-> 0, scheduledAt |-> n.scheduledAt,
     sentAt |-> NoTime, deliveredAt |-> NoTime,
     createdAt |-> n.createdAt, updatedAt |-> n.updatedAt]

\* the INSERT INTO notifications: a new row, or an error and no row
InsertNotification(s, n, ok) == IF ok THEN s @@ (n.id :> Row(n)) ELSE s

\* the position after the INSERT: an insert error returns before any publish
AfterInsertIgnoringError(ok, scheduledAt, t) ==
    IF ShouldPublish(scheduledAt, t) THEN "publish" ELSE "done"
AfterInsert(ok, scheduledAt, t) ==
    IF ~ok THEN "insert_error"
    ELSE IF ShouldPublish(scheduledAt, t) THEN "publish" ELSE "done"

\* queueMsg := queue.NotificationMessage{...}
QueueMessage(n, priority) ==
    [id |-> n.id, userID |-> n.userID, channel |-> n.channel,
     recipient |-> n.recipient, subject |-> n.subject, body |-> n.body,
     metadata |-> n.metadata, priority |-> priority, createdAt |-> n.createdAt]

\* kafkaMsg := kafka.Message{Key: []byte(msg.ID), Value: data, Headers: ...}
KafkaMessage(msg) ==
    [key |-> msg.id, value |-> msg,
     headers |-> [channel |-> msg.channel, priority |-> msg.priority]]

\* Producer.PublishNotification: one synchronous write of one message
PublishNotificationTwice(t, msg, ok) == IF ok THEN Append(Append(t, msg), msg) ELSE t
PublishNotificationAnyway(t, msg, ok) == Append(t, msg)
PublishNotification(t, msg, ok) == IF ok THEN Append(t, msg) ELSE t

\* Service.GetNotification: the selected columns scanned into a Notification
\* whose Metadata stays the nil map, or the not-found error
NotFound == [id |-> -1]
GetNotification(s, id) ==
    IF id \in DOMAIN s THEN s[id] @@ [metadata |-> NoMetadata] ELSE NotFound

\* calls are numbered in the order they begin
Turn(k) == \A j \in Ids : j < k => calls[j].pc # "idle"

\* identifier generation, preference lookup and gate
CreateStart(k, req) ==
    /\ calls[k].pc = "idle"
    /\ \E dbOk \in BOOLEAN :
         LET pref == getUserPreferences(prefs, req.userID, req.channel)
             next == IF ~dbOk THEN "prefs_error" ELSE AfterPreferences(pref)
         IN calls' = [calls EXCEPT ![k] =
                 [pc |-> IF next = "insert" THEN "insert" ELSE "done",
                  req |-> req,
                  notification |-> IF next = "insert" THEN NewNotification(k, req, now)
                                   ELSE NoNotification,
                  result |-> IF next = "insert" THEN "none" ELSE next,
                  published |-> "no"]]
    /\ UNCHANGED <<now, prefs, store, topic, offset, redelivered, updates,
                   historyVars, boundaryVars>>

\* the INSERT, then the schedule check
CreateInsert(k) ==
    /\ calls[k].pc = "insert"
    /\ \E dbOk \in BOOLEAN :
         LET req == calls[k].req
             next == AfterInsert(dbOk, req.scheduledAt, now)
         IN /\ store' = InsertNotification(store, calls[k].notification, dbOk)
            /\ calls' = [calls EXCEPT ![k].pc = IF next = "publish" THEN "publish" ELSE "done",
                                      ![k].result = IF next = "publish" THEN "none"
                                                    ELSE IF next = "done" THEN "ok" ELSE next]
    /\ UNCHANGED <<now, prefs, topic, offset, redelivered, updates,
                   historyVars, boundaryVars>>

\* the publish; its failure is logged and the call still returns the notification
CreatePublish(k) ==
    /\ calls[k].pc = "publish"
    /\ \E ok \in BOOLEAN :
         LET req == calls[k].req
             msg == QueueMessage(calls[k].notification, DefaultPriority(req.priority))
         IN /\ topic' = PublishNotification(topic, msg, ok)
            /\ calls' = [calls EXCEPT ![k].pc = "done", ![k].result = "ok",
                                      ![k].published = IF ok THEN "yes" ELSE "failed"]
    /\ UNCHANGED <<now, prefs, store, offset, redelivered, updates,
                   historyVars, boundaryVars>>

(***************************************************************************)
(* Service.UpdateNotificationStatus: a plain UPDATE ... WHERE id = $n.      *)
(* status, external_id, error_message and updated_at are overwritten;      *)
(* sent_at is written only for status sent, delivered_at only for          *)
(* delivered; an identifier without a row matches no row and is no error.  *)
(***************************************************************************)
UpdateRowCounting(r, status, externalID, errorMessage, t) ==
    [r EXCEPT !.status = status, !.externalID = externalID,
              !.errorMessage = errorMessage, !.updatedAt = t,
              !.retryCount = @ + 1,
              !.sentAt = IF status = StatusSent THEN t ELSE @,
              !.deliveredAt = IF status = StatusDelivered THEN t ELSE @]
UpdateRowGuarded(r, status, externalID, errorMessage, t) ==
    IF r.status # StatusPending THEN r
    ELSE [r EXCEPT !.status = status, !.externalID = externalID,
                   !.errorMessage = errorMessage, !.updatedAt = t,
                   !.sentAt = IF status = StatusSent THEN t ELSE @,
                   !.deliveredAt = IF status = StatusDelivered THEN t ELSE @]
UpdateRow(r, status, externalID, errorMessage, t) ==
    [r EXCEPT !.status = status, !.externalID = externalID,
              !.errorMessage = errorMessage, !.updatedAt = t,
              !.sentAt = IF status = StatusSent THEN t ELSE @,
              !.deliveredAt = IF status = StatusDelivered THEN t ELSE @]

UpdateNotificationStatus(s, id, status, externalID, errorMessage, t) ==
    IF id \in DOMAIN s
    THEN [s EXCEPT ![id] = UpdateRow(s[id], status, externalID, errorMessage, t)]
    ELSE s

\* statusFromProto of the gRPC transport
statusFromProto(p) ==
    CASE p = "PENDING" -> StatusPending
      [] p = "SENT" -> StatusSent
      [] p = "DELIVERED" -> StatusDelivered
      [] p = "FAILED" -> StatusFailed
      [] p = "CANCELLED" -> StatusCancelled
      [] OTHER -> StatusPending

\* what an update call may carry
UpdateExternalIDs == {"ext-2"}

\* Server.UpdateNotificationStatus: the externally reachable status update
ServerUpdateNotificationStatus(id, p, externalID) ==
    /\ updates < MaxUpdates
    /\ updates' = updates + 1
    /\ \E dbOk \in BOOLEAN :
         LET valid == p # "UNSPECIFIED"
             applied == valid /\ dbOk
         IN /\ store' = IF applied
                        THEN UpdateNotificationStatus(store, id, statusFromProto(p),
                                                      externalID, "", now)
                        ELSE store
            /\ adminWrites' = IF applied /\ id \in DOMAIN store
                              THEN [adminWrites EXCEPT ![id] = TRUE]
                              ELSE adminWrites
            /\ lastStatus' = IF applied /\ id \in DOMAIN store
                             THEN [lastStatus EXCEPT ![id] = statusFromProto(p)]
                             ELSE lastStatus
    /\ UNCHANGED <<now, prefs, topic, offset, calls, redelivered,
                   sends, workerWrites, handed, boundaryVars>>

(***************************************************************************)
(* The channel adapters: one provider call, classified into a report and   *)
(* an error.  resp is the provider's answer: "2xx" and "non2xx" are        *)
(* responses whose body parses, "2xx_unparsed" is a success status with a  *)
(* body that does not, "transport" is no response at all.                  *)
(***************************************************************************)
ProviderResponses == {"2xx", "2xx_unparsed", "non2xx", "transport"}

\* a DeliveryReport and the error returned with it ("" is nil)
Report(id, status, externalID, errorMessage, err) ==
    [notificationID |-> id, status |-> status, externalID |-> externalID,
     errorMessage |-> errorMessage, err |-> err]

\* EmailChannel.SendNotification: the status code alone decides
EmailSendNotification(id, resp) ==
    CASE resp = "transport" ->
           Report(id, StatusFailed, "", "transport error", "transport error")
      [] resp \in {"2xx", "2xx_unparsed"} ->
           Report(id, StatusSent, "ext-1", "", "")
      [] OTHER ->
           Report(id, StatusFailed, "", "SendGrid returned status 500",
                  "sendgrid error: SendGrid returned status 500")

\* PushChannel.SendNotification: the FCM client answers with a message name
\* or an error
PushSendNotification(id, resp) ==
    IF resp \in {"2xx", "2xx_unparsed"}
    THEN Report(id, StatusSent, "ext-1", "", "")
    ELSE Report(id, StatusFailed, "", "transport error", "transport error")

\* SMSChannel.SendNotification: the body is decoded before the status code
\* is looked at
SMSSendNotification(id, resp) ==
    CASE resp = "transport" ->
           Report(id, StatusFailed, "", "transport error", "transport error")
      [] resp = "2xx_unparsed" ->
           Report(id, StatusFailed, "", "Failed to parse Twilio response",
                  "invalid character")
      [] resp = "2xx" ->
           Report(id, StatusSent, "ext-1", "", "")
      [] OTHER ->
           Report(id, StatusFailed, "", "Unknown Twilio error",
                  "twilio error: Unknown Twilio error")

SendNotification(w, id, resp) ==
    CASE w = "email" -> EmailSendNotification(id, resp)
      [] w = "push" -> PushSendNotification(id, resp)
      [] OTHER -> SMSSendNotification(id, resp)

(***************************************************************************)
(* Consumer.ConsumeNotifications with the worker's handler                 *)
(* (processEmailNotification, processSMSNotification,                      *)
(* processPushNotification): one iteration of the consume loop.            *)
(***************************************************************************)
\* the status write that folds the report into the record: with an error
\* from the adapter the handler writes failed, "" and err.Error()
WorkerStatus(report) ==
    IF report.err # "" THEN StatusFailed ELSE report.status
WorkerExternalIDDropped(report) == ""
WorkerExternalID(report) ==
    IF report.err # "" THEN "" ELSE report.externalID
WorkerErrorMessage(report) ==
    IF report.err # "" THEN report.err
    ELSE IF report.status = StatusSent THEN "" ELSE report.errorMessage

\* the handler calls its adapter once for the message it was given
SendsPerMessageRetrying(report) == IF report.err # "" THEN 2 ELSE 1
SendsPerMessage(report) == 1

\* nothing handed to an adapter yet
NotHanded == [seen |-> FALSE, metadata |-> NoMetadata]

\* ReadMessage, the channel filter, the fetch of the full record, the
\* provider call and the status write
Handle(w) ==
    /\ offset[w] < Len(topic)
    /\ offset' = [offset EXCEPT ![w] = @ + 1]
    /\ LET msg == topic[offset[w] + 1]
       IN IF msg.channel # w
          THEN UNCHANGED <<store, sends, workerWrites, handed, lastStatus>>
          ELSE \E fetchOk \in BOOLEAN, resp \in ProviderResponses, updateOk \in BOOLEAN :
                 LET notif == GetNotification(store, msg.id)
                     fetched == fetchOk /\ notif # NotFound
                     report == SendNotification(w, msg.id, resp)
                 IN /\ sends' = IF fetched
                                 THEN [sends EXCEPT ![msg.id] = @ + SendsPerMessage(report)]
                                 ELSE sends
                    /\ handed' = IF fetched
                                  THEN [handed EXCEPT ![msg.id] =
                                           [seen |-> TRUE, metadata |-> notif.metadata]]
                                  ELSE handed
                    /\ lastStatus' = IF fetched /\ updateOk
                                      THEN [lastStatus EXCEPT ![msg.id] = WorkerStatus(report)]
                                      ELSE lastStatus
                    /\ store' = IF fetched /\ updateOk
                                 THEN UpdateNotificationStatus(store, msg.id,
                                          WorkerStatus(report), WorkerExternalID(report),
                                          WorkerErrorMessage(report), now)
                                 ELSE store
                    /\ workerWrites' = IF fetched /\ updateOk
                                        THEN [workerWrites EXCEPT ![msg.id] = TRUE]
                                        ELSE workerWrites
    /\ UNCHANGED <<now, prefs, topic, calls, redelivered, updates, adminWrites,
                   boundaryVars>>

\* the consumer group is handed again the message it read last
Redeliver(w) ==
    /\ offset[w] > 0
    /\ redelivered < MaxRedeliver
    /\ redelivered' = redelivered + 1
    /\ offset' = [offset EXCEPT ![w] = @ - 1]
    /\ UNCHANGED <<now, prefs, store, topic, calls, updates,
                   historyVars, boundaryVars>>

(***************************************************************************)
(* The transports of the API server: Handler (REST, api/rest) and Server   *)
(* (gRPC, api/grpc).  A creation exchange validates the request, calls     *)
(* Service.CreateNotification and maps its result to a response; a lookup  *)
(* exchange calls Service.GetNotification and maps its error.              *)
(***************************************************************************)
Transports == {"rest", "grpc"}

\* what a caller can put in the channel field: any string over REST, any
\* value of the open enum pb.Channel over gRPC ("OTHER" is a number that no
\* constant of the enum names)
RawChannels(t) ==
    IF t = "rest" THEN {"email", "sms", "push", "fax", ""}
    ELSE {"UNSPECIFIED", "EMAIL", "SMS", "PUSH", "OTHER"}

RawRequest(t, userID, channel, recipient, body, metadata, scheduledAt) ==
    [transport |-> t, userID |-> userID, channel |-> channel,
     recipient |-> recipient, subject |-> "subj", body |-> body, priority |-> 0,
     scheduledAt |-> scheduledAt, metadata |-> metadata]

\* the requests the transports receive: every channel value with all the
\* required fields present, and requests that lack required fields
RawRequests ==
    { RawRequest(t, "u1", c, "rcpt", "text", ms[1], ms[2]) :
        t \in Transports, c \in RawChannels("rest") \cup RawChannels("grpc"),
        ms \in {<<NoMetadata, MaxTime>>, <<SomeMetadata, NoTime>>} }
    \cup
    { RawRequest(t, f[1], c, f[2], f[3], SomeMetadata, NoTime) :
        t \in Transports, c \in {"email", "EMAIL"},
        f \in {<<"", "rcpt", "text">>, <<"u1", "", "text">>,
               <<"u1", "rcpt", "">>, <<"", "", "">>} }

\* validator.Struct on CreateNotificationRequest: required, oneof=email sms push
HandlerValidate(raw) ==
    /\ raw.userID # ""
    /\ raw.channel \in {"email", "sms", "push"}
    /\ raw.recipient # ""
    /\ raw.body # ""

\* the four checks at the head of Server.CreateNotification
ServerValidate(raw) ==
    /\ raw.userID # ""
    /\ raw.channel # "UNSPECIFIED"
    /\ raw.recipient # ""
    /\ raw.body # ""

\* channelFromProto: the three named channels, "" for every other value
channelFromProto(c) ==
    CASE c = "EMAIL" -> "email"
      [] c = "SMS" -> "sms"
      [] c = "PUSH" -> "push"
      [] OTHER -> ""

\* notifReq := notification.NotificationRequest{...}
NotificationRequestOf(raw) ==
    [userID |-> raw.userID,
     channel |-> IF raw.transport = "grpc" THEN channelFromProto(raw.channel)
                 ELSE raw.channel,
     recipient |-> raw.recipient, subject |-> raw.subject, body |-> raw.body,
     priority |-> raw.priority, scheduledAt |-> raw.scheduledAt,
     metadata |-> raw.metadata]

NoResponse == [code |-> "", message |-> ""]
NoExchange ==
    [phase |-> "none", transport |-> "", raw |-> NoRequest, req |-> NoRequest,
     response |-> NoResponse]

\* exchanges are numbered in the order they begin
ExchangeTurn(k) ==
    /\ api[k].phase = "none"
    /\ \A j \in Ids : j < k => api[j].phase # "none"

\* Handler.CreateNotification up to the service call: 400 on a validation error
HandlerCreateNotification(k, raw) ==
    /\ ExchangeTurn(k)
    /\ raw.transport = "rest"
    /\ raw.channel \in RawChannels("rest")
    /\ api' = [api EXCEPT ![k] =
          IF HandlerValidate(raw)
          THEN [phase |-> "calling", transport |-> "rest", raw |-> raw,
                req |-> NotificationRequestOf(raw), response |-> NoResponse]
          ELSE [phase |-> "done", transport |-> "rest", raw |-> raw,
                req |-> NoRequest,
                response |-> [code |-> "400", message |-> "Validation error"]]]
    /\ UNCHANGED <<now, prefs, store, topic, offset, calls, redelivered, updates,
                   historyVars, lookup, lab,
                   workerVars, unitVars>>

\* Server.CreateNotification up to the service call: InvalidArgument on a
\* failed check
ServerCreateNotification(k, raw) ==
    /\ ExchangeTurn(k)
    /\ raw.transport = "grpc"
    /\ raw.channel \in RawChannels("grpc")
    /\ api' = [api EXCEPT ![k] =
          IF ServerValidate(raw)
          THEN [phase |-> "calling", transport |-> "grpc", raw |-> raw,
                req |-> NotificationRequestOf(raw), response |-> NoResponse]
          ELSE [phase |-> "done", transport |-> "grpc", raw |-> raw,
                req |-> NoRequest,
                response |-> [code |-> "InvalidArgument", message |-> "field is required"]]]
    /\ UNCHANGED <<now, prefs, store, topic, offset, calls, redelivered, updates,
                   historyVars, lookup, lab,
                   workerVars, unitVars>>

\* the response of Handler.CreateNotification to the result of the service
HandlerCreateResponse(result) ==
    IF result = "ok"
    THEN [code |-> "201", message |-> "Notification created successfully"]
    ELSE [code |-> "500", message |-> "Failed to create notification"]

\* the response of Server.CreateNotification to the result of the service
ServerCreateResponse(result) ==
    IF result = "ok"
    THEN [code |-> "OK", message |-> "Notification created successfully"]
    ELSE [code |-> "Internal", message |-> "failed to create notification"]

\* the transport answers once the service call has returned
CreateRespond(k) ==
    /\ api[k].phase = "calling"
    /\ calls[k].pc = "done"
    /\ api' = [api EXCEPT ![k].phase = "done",
                          ![k].response = IF api[k].transport = "rest"
                                          THEN HandlerCreateResponse(calls[k].result)
                                          ELSE ServerCreateResponse(calls[k].result)]
    /\ UNCHANGED <<now, prefs, store, topic, offset, calls, redelivered, updates,
                   historyVars, lookup, lab,
                   workerVars, unitVars>>

\* an identifier that is not the text of a UUID; the id column is of type UUID
NotAUUID == 0
LookupIds == Ids \cup {NotAUUID}

\* QueryRowContext(...).Scan(...) of GetNotification: the row, sql.ErrNoRows,
\* or another error (the store fails, or rejects the text of the identifier)
QueryRow(s, id, dbOk) ==
    IF ~dbOk \/ id = NotAUUID THEN "error"
    ELSE IF id \in DOMAIN s THEN "row" ELSE "no_rows"

\* the error Service.GetNotification returns ("" is nil)
GetNotificationError(outcome) ==
    CASE outcome = "row" -> ""
      [] outcome = "no_rows" -> "notification not found"
      [] OTHER -> "failed to get notification: store error"

\* Handler.GetNotification: 404 for the not-found error, 500 for any other
HandlerGetResponse(err) ==
    IF err = "" THEN "200"
    ELSE IF err = "notification not found" THEN "404" ELSE "500"

\* Server.GetNotification: NotFound for the not-found error, Internal otherwise
ServerGetResponse(err) ==
    IF err = "" THEN "OK"
    ELSE IF err = "notification not found" THEN "NotFound" ELSE "Internal"

NoLookup ==
    [transport |-> "", id |-> NotAUUID, storeOk |-> FALSE, hadRecord |-> FALSE,
     err |-> "", code |-> ""]

\* a lookup exchange over either transport
GetNotificationExchange(t, id) ==
    /\ \E dbOk \in BOOLEAN :
         LET err == GetNotificationError(QueryRow(store, id, dbOk))
         IN lookup' = [transport |-> t, id |-> id, storeOk |-> dbOk,
                       hadRecord |-> id \in DOMAIN store, err |-> err,
                       code |-> IF t = "rest" THEN HandlerGetResponse(err)
                                ELSE ServerGetResponse(err)]
    /\ UNCHANGED <<now, prefs, store, topic, offset, calls, redelivered, updates,
                   historyVars, api, lab,
                   workerVars, unitVars>>

(***************************************************************************)
(* Single-outcome runs: one delivery outcome (identifier, status, external *)
(* id, error message), taken from an adapter's report as the worker folds  *)
(* it or from a status-update request, is applied to the store by          *)
(* Service.UpdateNotificationStatus, more than once and at different       *)
(* readings of the clock, as under redelivery.                             *)
(***************************************************************************)
NoReport == Report(0, "", "", "", "")
NoOutcome == [id |-> 0, status |-> "", externalID |-> "", errorMessage |-> ""]
NoLab ==
    [phase |-> "idle", w |-> "", resp |-> "", report |-> NoReport,
     outcome |-> NoOutcome, applied |-> 0, once |-> NoNotification]

\* the adapter of the record's channel is called once; the worker folds the
\* report into the arguments of its status write
SendOnce(id, resp) ==
    /\ lab.phase = "idle"
    /\ id \in DOMAIN store
    /\ LET w == store[id].channel
           report == SendNotification(w, id, resp)
       IN lab' = [phase |-> "sent", w |-> w, resp |-> resp, report |-> report,
                  outcome |-> [id |-> id, status |-> WorkerStatus(report),
                               externalID |-> WorkerExternalID(report),
                               errorMessage |-> WorkerErrorMessage(report)],
                  applied |-> 0, once |-> NoNotification]
    /\ UNCHANGED <<now, prefs, store, topic, offset, calls, redelivered, updates,
                   historyVars, api, lookup,
                   workerVars, unitVars>>

\* the outcome a status-update request carries
OutcomeRequested(id, p, externalID) ==
    /\ lab.phase = "idle"
    /\ id \in DOMAIN store
    /\ p # "UNSPECIFIED"
    /\ lab' = [phase |-> "sent", w |-> "", resp |-> "", report |-> NoReport,
               outcome |-> [id |-> id, status |-> statusFromProto(p),
                            externalID |-> externalID, errorMessage |-> ""],
               applied |-> 0, once |-> NoNotification]
    /\ UNCHANGED <<now, prefs, store, topic, offset, calls, redelivered, updates,
                   historyVars, api, lookup,
                   workerVars, unitVars>>

\* Service.UpdateNotificationStatus with the outcome, at the current time
ApplyOutcome ==
    /\ lab.phase = "sent"
    /\ lab.applied < MaxApplications
    /\ LET o == lab.outcome
       IN /\ store' = UpdateNotificationStatus(store, o.id, o.status, o.externalID,
                                               o.errorMessage, now)
          /\ lab' = [lab EXCEPT !.applied = @ + 1,
                                !.once = IF lab.applied = 0 THEN store'[o.id] ELSE @]
          /\ lastStatus' = [lastStatus EXCEPT ![o.id] = o.status]
    /\ UNCHANGED <<now, prefs, topic, offset, calls, redelivered, updates,
                   sends, workerWrites, adminWrites, handed, api, lookup,
                   workerVars, unitVars>>

\* time passes
Tick ==
    /\ now < MaxClock
    /\ now' = now + 1
    /\ UNCHANGED <<prefs, store, topic, offset, calls, redelivered, updates,
                   historyVars, boundaryVars>>

(***************************************************************************)
(* Consumer.ConsumeNotifications step by step, one loop per worker group   *)
(* (email-service, sms-service, push-service): the select on the context,  *)
(* ReadMessage and json.Unmarshal, and the handler in its suspension       *)
(* points (the fetch, the provider call, the status write).                *)
(***************************************************************************)
\* bytes on the topic that are no JSON of a NotificationMessage
Undecodable == [id |-> 0, channel |-> ""]
Decodable(msg) == msg # Undecodable

\* if msg.Channel != "email" { return nil }, and so for sms and push
OwnChannelAny(w, msg) == TRUE
OwnChannel(w, msg) == msg.channel = w

\* where the loop goes once the handler has returned: log, continue
AfterHandlerStopping(result) == IF result = "error" THEN "returned" ELSE "select"
AfterHandler(result) == "select"

\* what the handler returns after the adapter's report and the status write:
\* the adapter's error whatever the write did, else the error of the write
HandlerResultIgnoringWrite(report, updateOk) ==
    IF report.err # "" THEN "error" ELSE "nil"
HandlerResult(report, updateOk) ==
    IF report.err # "" THEN "error" ELSE IF updateOk THEN "nil" ELSE "error"

\* one run of the handler: the message's place in the topic, whether it was
\* of the worker's channel, what the run did and what it returned
Run(i, own, fetched, sendErr, wrote, sent, result) ==
    [index |-> i, kind |-> "handler", own |-> own, fetched |-> fetched,
     sendErr |-> sendErr, wrote |-> wrote, calls |-> sent, result |-> result]
NoRun ==
    [index |-> 0, kind |-> "none", own |-> FALSE, fetched |-> FALSE,
     sendErr |-> FALSE, wrote |-> FALSE, calls |-> 0, result |-> ""]
\* an iteration that ended before the handler: a read error, or a message
\* that does not decode
Logged(i, kind) == [NoRun EXCEPT !.index = i, !.kind = kind]

TopicSlots == 1..(MaxNotifs + 1)
IdleLoop ==
    [pc |-> "select", ctx |-> "live", err |-> "", report |-> NoReport,
     delivered |-> [i \in TopicSlots |-> 0], invoked |-> [i \in TopicSlots |-> 0],
     last |-> NoRun]

\* the interrupt signal: main cancels the context
Cancel(w) ==
    /\ loop[w].ctx = "live"
    /\ loop' = [loop EXCEPT ![w].ctx = "cancelled"]
    /\ UNCHANGED <<now, prefs, store, topic, offset, calls, redelivered, updates,
                   historyVars, api, lookup, lab, routed, unitVars>>

\* case <-ctx.Done(): return ctx.Err()
LoopReturn(w) ==
    /\ loop[w].pc = "select"
    /\ loop[w].ctx = "cancelled"
    /\ loop' = [loop EXCEPT ![w].pc = "returned", ![w].err = "context canceled"]
    /\ UNCHANGED <<now, prefs, store, topic, offset, calls, redelivered, updates,
                   historyVars, api, lookup, lab, routed, unitVars>>

\* ReadMessage fails: log, continue
LoopReadError(w) ==
    /\ loop[w].pc = "select"
    /\ loop[w].ctx = "live"
    /\ loop' = [loop EXCEPT ![w].last = Logged(0, "read_error")]
    /\ UNCHANGED <<now, prefs, store, topic, offset, calls, redelivered, updates,
                   historyVars, api, lookup, lab, routed, unitVars>>

\* ReadMessage hands over the next message and commits its offset; a message
\* that does not decode is logged; the handler is invoked and returns nil at
\* once for a message of another channel
LoopRead(w) ==
    /\ loop[w].pc = "select"
    /\ loop[w].ctx = "live"
    /\ offset[w] < Len(topic)
    /\ LET i == offset[w] + 1
           msg == topic[i]
       IN /\ offset' = [offset EXCEPT ![w] = i]
          /\ loop' = [loop EXCEPT
                ![w].delivered[i] = @ + 1,
                ![w].invoked[i] = IF Decodable(msg) THEN @ + 1 ELSE @,
                ![w].pc = IF ~Decodable(msg) THEN "select"
                          ELSE IF OwnChannel(w, msg) THEN "fetch"
                          ELSE AfterHandler("nil"),
                ![w].last = IF ~Decodable(msg) THEN Logged(i, "undecodable")
                            ELSE IF OwnChannel(w, msg) THEN @
                            ELSE Run(i, FALSE, FALSE, FALSE, FALSE, 0, "nil")]
    /\ UNCHANGED <<now, prefs, store, topic, calls, redelivered, updates,
                   historyVars, api, lookup, lab, routed, unitVars>>

\* notif, err := notificationService.GetNotification(ctx, msg.ID)
HandlerFetch(w) ==
    /\ loop[w].pc = "fetch"
    /\ \E fetchOk \in BOOLEAN :
         LET i == offset[w]
             id == topic[i].id
             notif == GetNotification(store, id)
             fetched == fetchOk /\ notif # NotFound
         IN /\ loop' = [loop EXCEPT
                  ![w].pc = IF fetched THEN "send" ELSE AfterHandler("error"),
                  ![w].last = IF fetched THEN @
                              ELSE Run(i, TRUE, FALSE, FALSE, FALSE, 0, "error")]
            /\ handed' = IF fetched
                          THEN [handed EXCEPT ![id] =
                                   [seen |-> TRUE, metadata |-> notif.metadata]]
                          ELSE handed
    /\ UNCHANGED <<now, prefs, store, topic, offset, calls, redelivered, updates,
                   sends, workerWrites, adminWrites, lastStatus,
                   api, lookup, lab, routed, unitVars>>

\* report, err := channel.SendNotification(ctx, *notif)
HandlerSend(w) ==
    /\ loop[w].pc = "send"
    /\ \E resp \in ProviderResponses :
         LET id == topic[offset[w]].id
             report == SendNotification(w, id, resp)
         IN /\ loop' = [loop EXCEPT ![w].pc = "write", ![w].report = report]
            /\ sends' = [sends EXCEPT ![id] = @ + SendsPerMessage(report)]
    /\ UNCHANGED <<now, prefs, store, topic, offset, calls, redelivered, updates,
                   workerWrites, adminWrites, handed, lastStatus,
                   api, lookup, lab, routed, unitVars>>

\* the status write that follows the report, and the return of the handler
HandlerWrite(w) ==
    /\ loop[w].pc = "write"
    /\ \E updateOk \in BOOLEAN :
         LET i == offset[w]
             id == topic[i].id
             report == loop[w].report
             result == HandlerResult(report, updateOk)
         IN /\ store' = IF updateOk
                        THEN UpdateNotificationStatus(store, id,
                                 WorkerStatus(report), WorkerExternalID(report),
                                 WorkerErrorMessage(report), now)
                        ELSE store
            /\ workerWrites' = IF updateOk THEN [workerWrites EXCEPT ![id] = TRUE]
                               ELSE workerWrites
            /\ lastStatus' = IF updateOk
                             THEN [lastStatus EXCEPT ![id] = WorkerStatus(report)]
                             ELSE lastStatus
            /\ loop' = [loop EXCEPT
                  ![w].pc = AfterHandler(result),
                  ![w].report = NoReport,
                  ![w].last = Run(i, TRUE, TRUE, report.err # "", updateOk, 1, result)]
    /\ UNCHANGED <<now, prefs, topic, offset, calls, redelivered, updates,
                   sends, adminWrites, handed, api, lookup, lab, routed, unitVars>>

(***************************************************************************)
(* ChannelManager: the registry of adapters by channel type.  A            *)
(* notification whose channel has no registered adapter gets a failed      *)
(* report and a nil error; any other is passed to the adapter.             *)
(***************************************************************************)
Registries == SUBSET Channels

ChannelManagerSendNotificationRaising(registry, notif, resp) ==
    IF notif.channel \notin registry
    THEN [invoked |-> FALSE,
          report |-> Report(notif.id, StatusFailed, "", "unsupported channel type",
                            "unsupported channel type")]
    ELSE [invoked |-> TRUE, report |-> SendNotification(notif.channel, notif.id, resp)]
ChannelManagerSendNotification(registry, notif, resp) ==
    IF notif.channel \notin registry
    THEN [invoked |-> FALSE,
          report |-> Report(notif.id, StatusFailed, "",
                            "unsupported channel type: " \o notif.channel, "")]
    ELSE [invoked |-> TRUE, report |-> SendNotification(notif.channel, notif.id, resp)]

NoRouted ==
    [id |-> 0, channel |-> "", registry |-> {}, invoked |-> FALSE, report |-> NoReport]

\* a record of the store is routed through a registry
Route(id, registry, resp) ==
    /\ id \in DOMAIN store
    /\ LET notif == GetNotification(store, id)
           sent == ChannelManagerSendNotification(registry, notif, resp)
       IN routed' = [id |-> id, channel |-> notif.channel, registry |-> registry,
                     invoked |-> sent.invoked, report |-> sent.report]
    /\ UNCHANGED <<now, prefs, store, topic, offset, calls, redelivered, updates,
                   historyVars, api, lookup, lab, loop, unitVars>>

(***************************************************************************)
(* Service.getUserPreferences with its cache: the check of the key         *)
(* user_preferences:<user>:<channel>, the query of the store, and          *)
(* RedisClient.CacheUserPreferences, which sets user_preferences:<user>    *)
(* with an expiry of one hour and whose result the service drops.          *)
(***************************************************************************)
\* time.Hour, in ticks of the clock
CacheTTL == 1

\* cacheKey := fmt.Sprintf("user_preferences:%s:%s", userID, channel)
ReadKey(userID, channel) == "user_preferences:" \o userID \o ":" \o channel
\* key := fmt.Sprintf("user_preferences:%s", userID)
CacheKey(userID) == "user_preferences:" \o userID

CacheKeys ==
    {CacheKey(u) : u \in Users} \cup {ReadKey(u, c) : u \in Users, c \in Channels}

\* a key that is not set, and a key set to the row of a channel
NoEntry == [channel |-> "", row |-> "none", expiresAt |-> 0]
Entry(channel, row, t) == [channel |-> channel, row |-> row, expiresAt |-> t]
EmptyCache == [key \in CacheKeys |-> NoEntry]

\* s.redis.Get(ctx, cacheKey).Result() returns no error
CacheHit(c, key, t) == c[key].expiresAt > t

\* r.Set(ctx, key, preferences, time.Hour).Err()
CacheUserPreferences(c, userID, channel, row, t, setOk) ==
    IF setOk THEN [c EXCEPT ![CacheKey(userID)] = Entry(channel, row, t + CacheTTL)]
    ELSE c

NoPreference == [enabled |-> FALSE, frequency |-> ""]

\* one run: the hit is logged, the store answers, a found row is cached
getUserPreferencesTrusting(p, c, userID, channel, t, dbOk, setOk) ==
    LET key == ReadKey(userID, channel)
    IN IF CacheHit(c, key, t)
       THEN [hit |-> TRUE, err |-> "", found |-> TRUE, cached |-> FALSE,
             pref |-> [enabled |-> RowEnabled(c[key].row),
                       frequency |-> RowFrequency(c[key].row)],
             cache |-> c]
       ELSE [hit |-> FALSE, err |-> "", found |-> FALSE, cached |-> FALSE,
             pref |-> getUserPreferences(p, userID, channel), cache |-> c]
getUserPreferencesCached(p, c, userID, channel, t, dbOk, setOk) ==
    LET hit == CacheHit(c, ReadKey(userID, channel), t)
        row == p[<<userID, channel>>]
    IN IF ~dbOk
       THEN [hit |-> hit, err |-> "failed to get user preferences", found |-> FALSE,
             cached |-> FALSE, pref |-> NoPreference, cache |-> c]
       ELSE IF row = "none"
       THEN [hit |-> hit, err |-> "", found |-> FALSE, cached |-> FALSE,
             pref |-> getUserPreferences(p, userID, channel), cache |-> c]
       ELSE [hit |-> hit, err |-> "", found |-> TRUE, cached |-> setOk,
             pref |-> getUserPreferences(p, userID, channel),
             cache |-> CacheUserPreferences(c, userID, channel, row, t, setOk)]

\* the decision of CreateNotification after the resolution
Decision(run) ==
    IF run.err # "" THEN "error" ELSE AfterPreferences(run.pref)

NoResolved ==
    [userID |-> "", channel |-> "", at |-> 0, before |-> EmptyCache, hit |-> FALSE,
     err |-> "", found |-> FALSE, cached |-> FALSE, pref |-> NoPreference,
     decision |-> "none"]

\* getUserPreferences runs for (userID, channel)
Resolve(userID, channel) ==
    /\ \E dbOk \in BOOLEAN, setOk \in BOOLEAN :
         LET run == getUserPreferencesCached(prefs, cache, userID, channel, now,
                                             dbOk, setOk)
         IN /\ resolved' = [userID |-> userID, channel |-> channel, at |-> now,
                            before |-> cache, hit |-> run.hit, err |-> run.err,
                            found |-> run.found, cached |-> run.cached,
                            pref |-> run.pref, decision |-> Decision(run)]
            /\ cache' = run.cache
    /\ UNCHANGED <<now, prefs, store, topic, offset, calls, redelivered, updates,
                   historyVars, api, lookup, lab, workerVars, manager, exchange>>

(***************************************************************************)
(* ChannelManager with its map: RegisterChannel stores the adapter under   *)
(* its GetChannelType(), SendNotification looks the notification's channel *)
(* up and calls the adapter found.  The push adapter takes the metadata    *)
(* map of the notification as the data of its message and writes           *)
(* notification_id and user_id into it.                                    *)
(***************************************************************************)
MaxAdapters == 2
MaxRegistrations == 2

\* the adapters a caller may register: instances of the channel types
Adapters == [type : Channels, instance : 1..MaxAdapters]
NoAdapter == [type |-> "", instance |-> 0]

\* cm.channels[channel.GetChannelType()] = channel
RegisterChannelKeeping(channels, adapter) ==
    IF adapter.type \in DOMAIN channels THEN channels
    ELSE [c \in DOMAIN channels \cup {adapter.type} |->
             IF c = adapter.type THEN adapter ELSE channels[c]]
RegisterChannel(channels, adapter) ==
    [c \in DOMAIN channels \cup {adapter.type} |->
        IF c = adapter.type THEN adapter ELSE channels[c]]

\* data = notif.Metadata; data["notification_id"] = ...; data["user_id"] = ...
PushData(notif) ==
    [key \in DOMAIN notif.metadata \cup {"notification_id", "user_id"} |->
        IF key = "notification_id" THEN ToString(notif.id)
        ELSE IF key = "user_id" THEN notif.userID
        ELSE notif.metadata[key]]

\* the caller's notification once the adapter has returned: the struct is
\* passed by value, its metadata map is shared with the caller
AfterSend(w, notif) ==
    IF w = "push" /\ notif.metadata # NoMetadata
    THEN [notif EXCEPT !.metadata = PushData(notif)]
    ELSE notif

\* channel.SendNotification(ctx, notif) of a registered adapter
AdapterSend(adapter, notif, resp) ==
    [adapter |-> adapter,
     report |-> SendNotification(adapter.type, notif.id, resp),
     after |-> AfterSend(adapter.type, notif)]

\* ChannelManager.SendNotification over the map
ManagerSend(channels, notif, resp) ==
    IF ChannelManagerSendNotification(DOMAIN channels, notif, resp).invoked
    THEN AdapterSend(channels[notif.channel], notif, resp)
    ELSE [adapter |-> NoAdapter,
          report |-> ChannelManagerSendNotification(DOMAIN channels, notif, resp).report,
          after |-> notif]

\* the notifications a caller hands over: with and without metadata
CallerNotifications ==
    {[NewNotification(1, req, 1) EXCEPT !.metadata = m] :
        req \in {r \in Requests : r.priority = 0 /\ r.scheduledAt = NoTime},
        m \in {NoMetadata, SomeMetadata}}

NoOut ==
    [routed |-> FALSE, notif |-> NoNotification, resp |-> "", adapter |-> NoAdapter,
     latest |-> NoAdapter, registrations |-> 0, report |-> NoReport,
     after |-> NoNotification]
NoManager ==
    [channels |-> <<>>, first |-> [c \in Channels |-> NoAdapter],
     latest |-> [c \in Channels |-> NoAdapter],
     registrations |-> [c \in Channels |-> 0], out |-> NoOut]

\* cm.RegisterChannel(adapter)
Register(adapter) ==
    /\ manager.registrations[adapter.type] < MaxRegistrations
    /\ manager' = [manager EXCEPT
          !.channels = RegisterChannel(@, adapter),
          !.first[adapter.type] = IF @ = NoAdapter THEN adapter ELSE @,
          !.latest[adapter.type] = adapter,
          !.registrations[adapter.type] = @ + 1]
    /\ UNCHANGED <<now, prefs, store, topic, offset, calls, redelivered, updates,
                   historyVars, api, lookup, lab, workerVars, cache, resolved,
                   exchange>>

\* cm.SendNotification(ctx, notif)
ManagerRoute(notif, resp) ==
    /\ LET sent == ManagerSend(manager.channels, notif, resp)
       IN manager' = [manager EXCEPT !.out =
             [routed |-> TRUE, notif |-> notif, resp |-> resp,
              adapter |-> sent.adapter,
              latest |-> IF notif.channel \in Channels
                         THEN manager.latest[notif.channel] ELSE NoAdapter,
              registrations |-> IF notif.channel \in Channels
                                THEN manager.registrations[notif.channel] ELSE 0,
              report |-> sent.report, after |-> sent.after]]
    /\ UNCHANGED <<now, prefs, store, topic, offset, calls, redelivered, updates,
                   historyVars, api, lookup, lab, workerVars, cache, resolved,
                   exchange>>

(***************************************************************************)
(* Server.UpdateNotificationStatus as an exchange: the two checks of the   *)
(* request, the UPDATE, and the response.  The id column is of type UUID:  *)
(* the store rejects an identifier that is not the text of one.            *)
(***************************************************************************)
\* an identifier that is empty
EmptyId == -2
UpdateIds == LookupIds \cup {EmptyId}

\* the outcome of the UPDATE: applied to a row, no row matched, or an error
ExecUpdate(s, id, dbOk) ==
    IF ~dbOk \/ id = NotAUUID THEN "error"
    ELSE IF id \in DOMAIN s THEN "row" ELSE "no_rows"

\* the response of the call: the success flag, or the status code
ServerUpdateResponse(id, p, outcome) ==
    IF id = EmptyId \/ p = "UNSPECIFIED" THEN "INVALID_ARGUMENT"
    ELSE IF outcome = "error" THEN "INTERNAL" ELSE "OK"

NoUpdateExchange ==
    [made |-> FALSE, id |-> 0, status |-> "", dbOk |-> TRUE, absent |-> FALSE,
     response |-> "", changed |-> FALSE]

UpdateExchange(id, p, externalID) ==
    /\ \E dbOk \in BOOLEAN :
         LET outcome == ExecUpdate(store, id, dbOk)
             response == ServerUpdateResponse(id, p, outcome)
             applied == response # "INVALID_ARGUMENT" /\ outcome = "row"
         IN /\ store' = IF applied
                        THEN UpdateNotificationStatus(store, id, statusFromProto(p),
                                                      externalID, "", now)
                        ELSE store
            /\ adminWrites' = IF applied THEN [adminWrites EXCEPT ![id] = TRUE]
                              ELSE adminWrites
            /\ lastStatus' = IF applied
                             THEN [lastStatus EXCEPT ![id] = statusFromProto(p)]
                             ELSE lastStatus
            /\ exchange' = [made |-> TRUE, id |-> id, status |-> p, dbOk |-> dbOk,
                            absent |-> id \notin DOMAIN store,
                            response |-> response, changed |-> store' # store]
    /\ UNCHANGED <<now, prefs, topic, offset, calls, redelivered, updates,
                   sends, workerWrites, handed, api, lookup, lab, workerVars,
                   cache, resolved, manager>>

\* no resolution, no registration and no update exchange yet
UnitsIdle ==
    /\ cache = EmptyCache
    /\ resolved = NoResolved
    /\ manager = NoManager
    /\ exchange = NoUpdateExchange

Init ==
    /\ now = 1
    /\ prefs = PrefTable
    /\ store = <<>>
    /\ topic = <<>>
    /\ offset = [w \in Channels |-> 0]
    /\ calls = [k \in Ids |-> IdleCall]
    /\ redelivered = 0
    /\ updates = 0
    /\ sends = [k \in Ids |-> 0]
    /\ workerWrites = [k \in Ids |-> FALSE]
    /\ adminWrites = [k \in Ids |-> FALSE]
    /\ handed = [k \in Ids |-> NotHanded]
    /\ lastStatus = [k \in Ids |-> "none"]
    /\ api = [k \in Ids |-> NoExchange]
    /\ lookup = NoLookup
    /\ lab = NoLab
    /\ routed = NoRouted
    /\ loop = [w \in Channels |-> IdleLoop]
    /\ UnitsIdle

Next ==
    \/ \E k \in Ids, req \in Requests : Turn(k) /\ CreateStart(k, req)
    \/ \E k \in Ids : CreateInsert(k)
    \/ \E k \in Ids : CreatePublish(k)
    \/ \E w \in Channels : Handle(w)
    \/ \E w \in Channels : Redeliver(w)
    \/ \E id \in Ids, p \in ProtoStatuses, e \in UpdateExternalIDs :
          ServerUpdateNotificationStatus(id, p, e)

Spec == Init /\ [][Next]_vars

(***************************************************************************)
(* The API server alone: creation and lookup exchanges over both           *)
(* transports, with the three steps of Service.CreateNotification.         *)
(***************************************************************************)
NextAPI ==
    \/ \E k \in Ids, raw \in RawRequests : HandlerCreateNotification(k, raw)
    \/ \E k \in Ids, raw \in RawRequests : ServerCreateNotification(k, raw)
    \/ \E k \in Ids : api[k].phase = "calling" /\ CreateStart(k, api[k].req)
    \/ \E k \in Ids : CreateInsert(k)
    \/ \E k \in Ids : CreatePublish(k)
    \/ \E k \in Ids : CreateRespond(k)
    \/ \E t \in Transports, id \in LookupIds : GetNotificationExchange(t, id)

SpecAPI == Init /\ [][NextAPI]_vars

(***************************************************************************)
(* The single-outcome runs: they start after a notification was created    *)
(* and published for some request, with no preference row in the store.    *)
(***************************************************************************)
InitOutcome ==
    \E req \in Requests :
        LET n == NewNotification(1, req, 1)
        IN /\ now = 1
           /\ prefs = [uc \in Users \X Channels |-> "none"]
           /\ store = InsertNotification(<<>>, n, TRUE)
           /\ topic = PublishNotification(<<>>, QueueMessage(n, DefaultPriority(req.priority)), TRUE)
           /\ offset = [w \in Channels |-> 0]
           /\ calls = [k \in Ids |->
                         IF k = 1
                         THEN [pc |-> "done", req |-> req, notification |-> n,
                               result |-> "ok", published |-> "yes"]
                         ELSE IdleCall]
           /\ redelivered = 0
           /\ updates = 0
           /\ sends = [k \in Ids |-> 0]
           /\ workerWrites = [k \in Ids |-> FALSE]
           /\ adminWrites = [k \in Ids |-> FALSE]
           /\ handed = [k \in Ids |-> NotHanded]
           /\ lastStatus = [k \in Ids |-> "none"]
           /\ api = [k \in Ids |-> NoExchange]
           /\ lookup = NoLookup
           /\ lab = NoLab
           /\ routed = NoRouted
           /\ loop = [w \in Channels |-> IdleLoop]
           /\ UnitsIdle

NextOutcome ==
    \/ \E id \in Ids, resp \in ProviderResponses : SendOnce(id, resp)
    \/ \E id \in Ids, p \in ProtoStatuses, e \in UpdateExternalIDs :
          OutcomeRequested(id, p, e)
    \/ ApplyOutcome
    \/ Tick
    \/ \E id \in Ids, registry \in Registries, resp \in ProviderResponses :
          Route(id, registry, resp)

SpecOutcome == InitOutcome /\ [][NextOutcome]_vars

(***************************************************************************)
(* The worker groups alone, step by step: they start after a notification  *)
(* was created and published for each identifier, with bytes of another    *)
(* producer on the topic after the first message.  A request for a channel *)
(* without a worker has channel "".                                        *)
(***************************************************************************)
ConsumeChannels == {"email", "push", ""}

\* the channels of the published notifications, the first one an email
ConsumeTopics == {ch \in [Ids -> ConsumeChannels] : ch[1] = "email"}

ConsumeRequest(c) ==
    [userID |-> "u1", channel |-> c, recipient |-> "rcpt", subject |-> "subj",
     body |-> "text", priority |-> 0, scheduledAt |-> NoTime,
     metadata |-> SomeMetadata]

InitConsume ==
    \E ch \in ConsumeTopics :
        LET n(k) == NewNotification(k, ConsumeRequest(ch[k]), 1)
            msg(k) == QueueMessage(n(k), MediumPriority)
        IN /\ now = 1
           /\ prefs = [uc \in Users \X Channels |-> "none"]
           /\ store = [k \in Ids |-> Row(n(k))]
           /\ topic = [i \in TopicSlots |->
                          IF i = 1 THEN msg(1)
                          ELSE IF i = 2 THEN Undecodable ELSE msg(i - 1)]
           /\ offset = [w \in Channels |-> 0]
           /\ calls = [k \in Ids |->
                         [pc |-> "done", req |-> ConsumeRequest(ch[k]),
                          notification |-> n(k), result |-> "ok",
                          published |-> "yes"]]
           /\ redelivered = 0
           /\ updates = 0
           /\ sends = [k \in Ids |-> 0]
           /\ workerWrites = [k \in Ids |-> FALSE]
           /\ adminWrites = [k \in Ids |-> FALSE]
           /\ handed = [k \in Ids |-> NotHanded]
           /\ lastStatus = [k \in Ids |-> "none"]
           /\ api = [k \in Ids |-> NoExchange]
           /\ lookup = NoLookup
           /\ lab = NoLab
           /\ routed = NoRouted
           /\ loop = [w \in Channels |-> IdleLoop]
           /\ UnitsIdle

\* the status-update calls that arrive while the workers run
ConsumeUpdates == {"DELIVERED", "CANCELLED"}

NextConsume ==
    \/ \E w \in Channels : LoopRead(w)
    \/ \E w \in Channels : HandlerFetch(w)
    \/ \E w \in Channels : HandlerSend(w)
    \/ \E w \in Channels : HandlerWrite(w)
    \/ \E w \in Channels : loop[w].pc = "select" /\ Redeliver(w)
    \/ \E id \in Ids, p \in ConsumeUpdates, e \in UpdateExternalIDs :
          ServerUpdateNotificationStatus(id, p, e)

SpecConsume == InitConsume /\ [][NextConsume]_vars

(***************************************************************************)
(* The loops with their context: read errors, the interrupt signal and the *)
(* return of ConsumeNotifications.                                         *)
(***************************************************************************)
\* the steps of the loop of worker group w that its goroutine takes by itself
LoopStep(w) ==
    \/ LoopRead(w)
    \/ HandlerFetch(w)
    \/ HandlerSend(w)
    \/ HandlerWrite(w)
    \/ LoopReturn(w)

\* the worker processes that are up while the loops are observed
LoopGroups == {"email", "push"}

NextLoop ==
    \/ \E w \in LoopGroups : LoopRead(w)
    \/ \E w \in LoopGroups : HandlerFetch(w)
    \/ \E w \in LoopGroups : HandlerSend(w)
    \/ \E w \in LoopGroups : HandlerWrite(w)
    \/ \E w \in LoopGroups : LoopReturn(w)
    \/ \E w \in LoopGroups : LoopReadError(w)
    \/ \E w \in LoopGroups : Cancel(w)

\* the goroutine of each loop keeps running
SpecLoop ==
    InitConsume /\ [][NextLoop]_vars /\ \A w \in LoopGroups : WF_vars(LoopStep(w))

(***************************************************************************)
(* Vocabulary of the properties.                                           *)
(***************************************************************************)
\* the queue messages bearing identifier k
MessagesOf(k) == {i \in 1..Len(topic) : topic[i].id = k}
\* the call k has returned
Returned(k) == calls[k].pc = "done"
\* the call k returned the notification (err == nil)
Succeeded(k) == Returned(k) /\ calls[k].result = "ok"
\* no worker write and no status-update call has been applied to k
Untouched(k) == ~workerWrites[k] /\ ~adminWrites[k]
\* the request of call k carries no scheduled_at, or one before the clock
Immediate(k) ==
    calls[k].req.scheduledAt = NoTime \/ calls[k].req.scheduledAt < now
TerminalStatuses == {StatusSent, StatusDelivered, StatusFailed, StatusCancelled}
\* the lifecycle: pending -> sent -> delivered, pending -> failed,
\* pending or sent -> cancelled
Forward(a, b) ==
    \/ a = b
    \/ a = StatusPending
    \/ a = StatusSent /\ b \in {StatusDelivered, StatusCancelled}

(***************************************************************************)
(* C1. As stated: every call whose request is valid and whose resolved     *)
(* preference is enabled succeeds, and the returned identifier looks up to *)
(* a pending record while nothing has touched it.  The call fails when the *)
(* store insert fails.                                                     *)
(***************************************************************************)
C1_EnabledAlwaysSucceeds ==
    \A k \in Ids :
        (Returned(k) /\ calls[k].result \notin {"disabled", "prefs_error"})
        => /\ Succeeded(k)
           /\ Untouched(k) => GetNotification(store, k).status = StatusPending

(***************************************************************************)
(* C1, amended: a call whose resolved preference is enabled succeeds       *)
(* exactly when its store insert succeeds, and then a lookup of the        *)
(* returned identifier, made before any worker write or status update is   *)
(* applied to it, finds the record of that identifier with status pending. *)
(***************************************************************************)
C1_CreatedIsPending ==
    \A k \in Ids :
        Returned(k) =>
            /\ Succeeded(k) <=> k \in DOMAIN store
            /\ (Succeeded(k) /\ Untouched(k)) =>
                   /\ GetNotification(store, k) # NotFound
                   /\ GetNotification(store, k).id = k
                   /\ GetNotification(store, k).status = StatusPending

\* a call for a pair without a preference row has returned a pending record
C1_Witness ==
    \E k \in Ids :
        /\ Succeeded(k) /\ Untouched(k)
        /\ prefs[<<calls[k].req.userID, calls[k].req.channel>>] = "none"
        /\ GetNotification(store, k).status = StatusPending

(***************************************************************************)
(* C2. A call whose resolved preference is disabled fails in its first     *)
(* step, leaving the store and the queue as they were; no record and no    *)
(* queue message ever bears its identifier.                                *)
(***************************************************************************)
C2_DisabledStep ==
    \A k \in Ids :
        (/\ calls[k].pc = "idle"
         /\ calls'[k].pc # "idle"
         /\ ~getUserPreferences(prefs, calls'[k].req.userID, calls'[k].req.channel).enabled)
        => /\ calls'[k].pc = "done"
           /\ calls'[k].result \in {"disabled", "prefs_error"}
           /\ store' = store
           /\ topic' = topic

C2_DisabledState ==
    \A k \in Ids :
        (/\ calls[k].pc # "idle"
         /\ ~getUserPreferences(prefs, calls[k].req.userID, calls[k].req.channel).enabled)
        => /\ Returned(k) /\ ~Succeeded(k)
           /\ k \notin DOMAIN store
           /\ MessagesOf(k) = {}

\* C2: the rejection of a disabled preference, as a step and as a state
C2_DisabledRejected == [][C2_DisabledStep]_vars /\ []C2_DisabledState

\* a call was rejected by the preference gate
C2_Witness ==
    \E k \in Ids : Returned(k) /\ calls[k].result = "disabled"

C4_MessageHasRecord ==
    \A i \in 1..Len(topic) :
        /\ GetNotification(store, topic[i].id) # NotFound
        /\ GetNotification(store, topic[i].id).id = topic[i].id
        /\ GetNotification(store, topic[i].id).channel = topic[i].channel

\* a worker has fetched the record of a consumed message and sent it
C4_Witness ==
    \E i \in 1..Len(topic) :
        /\ offset[topic[i].channel] >= i
        /\ sends[topic[i].id] > 0

(***************************************************************************)
(* C5. Once the worker of its channel has consumed every message of the    *)
(* queue, every immediate notification that creation accepted, and that no *)
(* status-update call has rewritten, has a terminal status (sent,          *)
(* delivered, failed or cancelled): none is left pending with nothing in   *)
(* the queue to drive it.                                                  *)
(***************************************************************************)
C5_AcceptedReachesTerminal ==
    \A k \in Ids :
        (/\ Succeeded(k) /\ Immediate(k) /\ ~adminWrites[k]
         /\ offset[calls[k].req.channel] = Len(topic))
        => GetNotification(store, k).status \in TerminalStatuses

(***************************************************************************)
(* C6. Every step moves the status of every record forward along the       *)
(* lifecycle or leaves it: delivered, failed and cancelled are final and   *)
(* no record returns to pending.                                           *)
(***************************************************************************)
C6_StatusStep ==
    \A k \in DOMAIN store : Forward(store[k].status, store'[k].status)

\* C6: no step moves a status backwards or out of a final status
C6_StatusMovesForward == [][C6_StatusStep]_vars

(***************************************************************************)
(* C7. For every record, sent_at is set if and only if the status is sent  *)
(* or delivered.                                                           *)
(***************************************************************************)
C7_SentAtIffSent ==
    \A k \in DOMAIN store :
        (store[k].sentAt # NoTime) <=> (store[k].status \in {StatusSent, StatusDelivered})

(***************************************************************************)
(* C8. A call whose store insert failed has returned an error; no record   *)
(* has its identifier and no queue message bears it.                       *)
(***************************************************************************)
C8_InsertFailure ==
    \A k \in Ids :
        /\ (calls[k].pc \notin {"idle", "insert"} /\ k \notin DOMAIN store)
           => /\ Returned(k) /\ ~Succeeded(k)
              /\ calls[k].published = "no"
              /\ MessagesOf(k) = {}
        /\ calls[k].result = "insert_error"
           => /\ Returned(k)
              /\ k \notin DOMAIN store
              /\ MessagesOf(k) = {}

\* an insert failed
C8_Witness ==
    \E k \in Ids :
        Returned(k) /\ calls[k].result = "insert_error" /\ k \notin DOMAIN store

C11_RoundTrip ==
    \A k \in Ids :
        (api[k].phase = "done" /\ Succeeded(k))
        => LET n == GetNotification(store, k)
               r == api[k].raw
           IN /\ n.id = k
              /\ n.status = StatusPending
              /\ n.createdAt = calls[k].notification.createdAt
              /\ n.userID = r.userID
              /\ n.channel = api[k].req.channel
              /\ n.recipient = r.recipient
              /\ n.subject = r.subject
              /\ n.body = r.body
              /\ n.scheduledAt = r.scheduledAt
              /\ n.metadata = r.metadata

(***************************************************************************)
(* C12. The notification a worker hands to its adapter for a consumed      *)
(* message carries the metadata of the creation request.                   *)
(***************************************************************************)
C12_MetadataHanded ==
    \A k \in Ids :
        handed[k].seen => handed[k].metadata = calls[k].req.metadata

(***************************************************************************)
(* C13. As stated: after the same outcome was applied to the store twice,  *)
(* the record is identical to the record after the first application.      *)
(* The second application writes the time it is made at.                   *)
(***************************************************************************)
C13_TwiceIsOnce ==
    lab.applied >= 2 => store[lab.outcome.id] = lab.once

(***************************************************************************)
(* C13, amended: after the same outcome was applied twice, the record      *)
(* equals the record after the first application in every field but the    *)
(* timestamps the update writes (updated_at, and sent_at for status sent,  *)
(* delivered_at for status delivered), which are those of the last         *)
(* application; nothing is accumulated and retry_count is unchanged.       *)
(***************************************************************************)
C13_TwiceIsOnceButTimes ==
    lab.applied >= 2 =>
        LET r == store[lab.outcome.id]
            f == lab.once
            o == lab.outcome
        IN /\ r = [f EXCEPT !.updatedAt = r.updatedAt,
                            !.sentAt = IF o.status = StatusSent THEN r.sentAt ELSE @,
                            !.deliveredAt = IF o.status = StatusDelivered
                                            THEN r.deliveredAt ELSE @]
           /\ r.status = o.status
           /\ r.externalID = o.externalID
           /\ r.errorMessage = o.errorMessage
           /\ r.retryCount = 0
           /\ r.updatedAt >= f.updatedAt

\* a sent outcome was applied twice, the second time later than the first
C13_Witness ==
    /\ lab.applied = 2
    /\ lab.outcome.status = StatusSent
    /\ store[lab.outcome.id].updatedAt > lab.once.updatedAt

(***************************************************************************)
(* C14. Last write wins: the persisted status of a record is the status of *)
(* the update that was applied to it last, by a worker or by a             *)
(* status-update call, whatever the status was before; after a worker      *)
(* wrote sent and a redelivery wrote failed, the record is failed.         *)
(***************************************************************************)
C14_LastWriteWins ==
    \A k \in DOMAIN store :
        /\ lastStatus[k] # "none" => store[k].status = lastStatus[k]
        /\ lastStatus[k] = "none" => store[k].status = StatusPending

\* two handlers wrote to one record, sent and then failed
C14_Witness ==
    \E k \in DOMAIN store :
        /\ sends[k] = 2 /\ ~adminWrites[k]
        /\ store[k].sentAt # NoTime
        /\ lastStatus[k] = StatusFailed
        /\ store[k].status = StatusFailed

(***************************************************************************)
(* C15. A lookup, answered by the store, of an identifier that no record   *)
(* has is answered 404 over REST and NOT_FOUND over gRPC; a lookup that    *)
(* the store failed is answered 500 / INTERNAL.                            *)
(***************************************************************************)
C15_NotFoundMapped ==
    lookup.transport # "" =>
        /\ (lookup.storeOk /\ ~lookup.hadRecord)
           => /\ lookup.err = "notification not found"
              /\ lookup.code = IF lookup.transport = "rest" THEN "404" ELSE "NotFound"
        /\ ~lookup.storeOk
           => lookup.code = IF lookup.transport = "rest" THEN "500" ELSE "Internal"

(***************************************************************************)
(* C16. A creation request that lacks the user id, the recipient or the    *)
(* body, or whose channel is none of email, sms and push, is rejected by   *)
(* the transport: the service is never called for it, no record and no     *)
(* queue message comes of it.                                              *)
(***************************************************************************)
C16_InvalidRejected ==
    \A k \in Ids :
        (/\ api[k].phase # "none"
         /\ \/ api[k].raw.userID = ""
            \/ api[k].raw.recipient = ""
            \/ api[k].raw.body = ""
            \/ api[k].raw.channel \notin
                 (IF api[k].transport = "rest" THEN {"email", "sms", "push"}
                  ELSE {"EMAIL", "SMS", "PUSH"}))
        => /\ api[k].phase = "done"
           /\ api[k].response.code \in {"400", "InvalidArgument"}
           /\ calls[k].pc = "idle"
           /\ k \notin DOMAIN store
           /\ MessagesOf(k) = {}

(***************************************************************************)
(* C17. Every record has a non-empty body, user id and recipient and a     *)
(* channel among email, sms and push.                                      *)
(***************************************************************************)
C17_RecordsWellFormed ==
    \A k \in DOMAIN store :
        /\ store[k].body # ""
        /\ store[k].userID # ""
        /\ store[k].recipient # ""
        /\ store[k].channel \in Channels

(***************************************************************************)
(* C18. Over one transport, the response to a creation the preference gate *)
(* aborted differs from the response to a creation whose insert failed.    *)
(***************************************************************************)
C18_DeniedDistinguishable ==
    \A j, k \in Ids :
        (/\ api[j].phase = "done" /\ api[k].phase = "done"
         /\ api[j].transport = api[k].transport
         /\ calls[j].result = "disabled"
         /\ calls[k].result = "insert_error")
        => api[j].response # api[k].response

(***************************************************************************)
(* C19. The report of an adapter carries the identifier it was given; it   *)
(* is sent with the provider's identifier when the provider answered with  *)
(* a success status, and failed with an error message when the provider    *)
(* answered otherwise or could not be reached.                             *)
(***************************************************************************)
C19_ReportFollowsProvider ==
    lab.w # "" =>
        /\ lab.report.notificationID = lab.outcome.id
        /\ lab.resp \in {"2xx", "2xx_unparsed"}
           => /\ lab.report.status = StatusSent
              /\ lab.report.externalID # ""
        /\ lab.resp \in {"non2xx", "transport"}
           => /\ lab.report.status = StatusFailed
              /\ lab.report.errorMessage # ""

(***************************************************************************)
(* C20. Single attempt: the provider calls for an identifier grow only in  *)
(* a step in which the worker of its channel consumes a message bearing    *)
(* it, and by one; so they never exceed the deliveries of that message.    *)
(***************************************************************************)
C20_SendStep ==
    \A k \in Ids :
        sends'[k] # sends[k]
        => /\ sends'[k] = sends[k] + 1
           /\ \E w \in Channels :
                /\ offset[w] < Len(topic)
                /\ offset'[w] = offset[w] + 1
                /\ topic[offset[w] + 1].id = k
                /\ topic[offset[w] + 1].channel = w

C20_SendsBounded ==
    \A k \in Ids :
        /\ sends[k] <= Cardinality(MessagesOf(k)) + redelivered
        /\ MessagesOf(k) = {} => sends[k] = 0

C21_UnsupportedChannel ==
    (routed.id # 0 /\ routed.channel \notin routed.registry)
    => /\ routed.report.notificationID = routed.id
       /\ routed.report.status = StatusFailed
       /\ routed.report.errorMessage = "unsupported channel type: " \o routed.channel
       /\ routed.report.externalID = ""
       /\ routed.report.err = ""
       /\ ~routed.invoked

\* an email notification was routed through a registry that holds other
\* adapters only
C21_Witness ==
    /\ routed.id # 0
    /\ routed.channel = "email"
    /\ routed.registry = {"sms", "push"}
    /\ routed.report.errorMessage = "unsupported channel type: email"

(***************************************************************************)
(* Preference resolution alone: any table of preference rows, a cache that *)
(* is empty or holds an entry another run or another process left, and the *)
(* clock that expires the entries.                                         *)
(***************************************************************************)
\* the rows of the tables the resolutions run against
TableRows == {"none", "off", "on_daily"}

InitialCaches ==
    {EmptyCache,
     [EmptyCache EXCEPT ![ReadKey("u1", "email")] = Entry("email", "off", MaxClock)],
     [EmptyCache EXCEPT ![CacheKey("u1")] = Entry("sms", "on_daily", MaxClock)]}

\* nothing created, nothing published, no worker at work
Quiet ==
    /\ store = <<>>
    /\ topic = <<>>
    /\ offset = [w \in Channels |-> 0]
    /\ calls = [k \in Ids |-> IdleCall]
    /\ redelivered = 0
    /\ updates = 0
    /\ sends = [k \in Ids |-> 0]
    /\ workerWrites = [k \in Ids |-> FALSE]
    /\ adminWrites = [k \in Ids |-> FALSE]
    /\ handed = [k \in Ids |-> NotHanded]
    /\ lastStatus = [k \in Ids |-> "none"]
    /\ api = [k \in Ids |-> NoExchange]
    /\ lookup = NoLookup
    /\ lab = NoLab
    /\ routed = NoRouted
    /\ loop = [w \in Channels |-> IdleLoop]

InitPrefs ==
    /\ now = 1
    /\ prefs \in [Users \X Channels -> TableRows]
    /\ Quiet
    /\ cache \in InitialCaches
    /\ resolved = NoResolved
    /\ manager = NoManager
    /\ exchange = NoUpdateExchange

NextPrefs ==
    \/ \E u \in Users, c \in Channels : Resolve(u, c)
    \/ Tick

SpecPrefs == InitPrefs /\ [][NextPrefs]_vars

(***************************************************************************)
(* A channel manager alone: adapters are registered and notifications are  *)
(* routed through it.                                                      *)
(***************************************************************************)
InitChannels ==
    /\ now = 1
    /\ prefs = PrefTable
    /\ Quiet
    /\ UnitsIdle

NextChannels ==
    \/ \E adapter \in Adapters : Register(adapter)
    \/ \E notif \in CallerNotifications, resp \in ProviderResponses :
          ManagerRoute(notif, resp)

SpecChannels == InitChannels /\ [][NextChannels]_vars

(***************************************************************************)
(* Status-update exchanges alone, on a store that holds the record of the  *)
(* first identifier and no other.                                          *)
(***************************************************************************)
InitUpdate ==
    /\ InitOutcome
    /\ calls[1].req.channel = "email"
    /\ calls[1].req.priority = 0
    /\ calls[1].req.scheduledAt = NoTime

NextUpdate ==
    \/ \E id \in UpdateIds, p \in ProtoStatuses, e \in UpdateExternalIDs :
          UpdateExchange(id, p, e)
    \/ Tick

SpecUpdate == InitUpdate /\ [][NextUpdate]_vars

(***************************************************************************)
(* Vocabulary of the worker loops.                                         *)
(***************************************************************************)
\* the handler of group w is between its channel filter and its return
InHandler(w) == loop[w].pc \in {"fetch", "send", "write"}
\* the message the loop of group w read last
Current(w) == topic[offset[w]]
\* the handler of group w is at work on the notification k
InFlight(w, k) == InHandler(w) /\ Current(w).id = k
\* every group has read the whole topic and is back at its select
Drained ==
    \A w \in Channels : offset[w] = Len(topic) /\ loop[w].pc = "select"
\* this step is the return of the handler of group w
HandlerReturns(w) == InHandler(w) /\ ~InHandler(w)'
\* this step hands the next message of the topic to group w
Delivers(w) == offset'[w] = offset[w] + 1

\* C22. As stated: once the worker groups have handled the message of a
\* notification whose channel has no adapter, its record has status failed
\* and the error message "unsupported channel type: <channel>".  The workers
\* never consult the registry: each holds the adapter of its own channel and
\* skips every other message, so the record stays pending.
C22_UnsupportedEndsFailed ==
    \A k \in Ids :
        (Drained /\ store[k].channel \notin Channels /\ ~adminWrites[k])
        => /\ store[k].status = StatusFailed
           /\ store[k].errorMessage = "unsupported channel type: " \o store[k].channel

\* C23: when the handler of a worker group is given a message of its own
\* channel, the provider accepts the send with external identifier e and the
\* status write succeeds, the record has status sent, a sent_at, external
\* identifier e and an empty error message, and the handler returns nil.
C23_Step ==
    \A w \in Channels :
        (/\ loop[w].pc = "write"
         /\ HandlerReturns(w)
         /\ loop[w].report.err = ""
         /\ loop[w].report.status = StatusSent
         /\ loop'[w].last.wrote)
        => LET id == Current(w).id
           IN /\ Current(w).channel = w
              /\ store'[id].status = StatusSent
              /\ store'[id].sentAt = now
              /\ store'[id].sentAt # NoTime
              /\ store'[id].externalID = loop[w].report.externalID
              /\ store'[id].externalID # ""
              /\ store'[id].errorMessage = ""
              /\ loop'[w].last.result = "nil"

C23_SentRecorded == [][C23_Step]_vars

\* the email worker has recorded the accepted send of notification 1
C23_Witness ==
    /\ loop["email"].last.index = 1
    /\ loop["email"].last.wrote
    /\ loop["email"].last.result = "nil"
    /\ loop["email"].pc = "select"
    /\ store[1].status = StatusSent
    /\ store[1].externalID = "ext-1"
    /\ store[1].sentAt = now
    /\ ~adminWrites[1]

\* C24. As stated: every message of the topic is delivered exactly once to
\* each worker group, and only the worker of the message's channel calls a
\* provider or writes a status for it.  A redelivery hands a message to a
\* group a second time.
C24_DeliveredOnce ==
    \A w \in Channels : \A i \in 1..Len(topic) :
        /\ loop[w].delivered[i] <= 1
        /\ offset[w] >= i => loop[w].delivered[i] = 1

\* C24, amended: every message a group has read past was delivered to the
\* handler of that group, once unless the queue redelivered; only the worker
\* whose channel is the message's channel fetches, calls a provider or
\* writes a status for it.
C24_State ==
    /\ \A w \in Channels : \A i \in 1..Len(topic) :
          /\ offset[w] >= i => loop[w].delivered[i] >= 1
          /\ loop[w].delivered[i] <= 1 + redelivered
          /\ loop[w].invoked[i] = IF Decodable(topic[i]) THEN loop[w].delivered[i] ELSE 0
    /\ \A w \in Channels : InHandler(w) => Current(w).channel = w

C24_Step ==
    \A k \in Ids :
        (sends'[k] # sends[k] \/ workerWrites'[k] # workerWrites[k]
            \/ (store'[k] # store[k] /\ updates' = updates))
        => \E w \in Channels :
              /\ InFlight(w, k)
              /\ Current(w).channel = w
              /\ store[k].channel = w
              /\ \A v \in Channels \ {w} : loop'[v] = loop[v]

C24_FanOut == []C24_State /\ [][C24_Step]_vars

\* the three groups have read the whole topic, the email message was
\* redelivered to the email group, and only the email worker acted on it
C24_Witness ==
    /\ Drained
    /\ loop["email"].delivered[1] = 2
    /\ loop["sms"].delivered[1] = 1
    /\ loop["push"].delivered[1] = 1
    /\ sends[1] = 2
    /\ workerWrites[1]

\* C25: when the handler returns an error, or a message does not decode, the
\* loop logs and continues: the handler is invoked once per delivery and
\* never for bytes that do not decode, the topic is left as it is (nothing
\* is requeued or dead-lettered), and the loop is back at its select, from
\* where it reads the following messages.
C25_State ==
    \A w \in Channels :
        /\ loop[w].pc # "returned"
        /\ \A i \in 1..Len(topic) :
              loop[w].invoked[i] =
                  IF Decodable(topic[i]) THEN loop[w].delivered[i] ELSE 0

C25_Step ==
    /\ topic' = topic
    /\ \A w \in Channels :
          /\ (HandlerReturns(w) /\ loop'[w].last.result = "error")
             => /\ loop'[w].pc = "select"
                /\ loop'[w].ctx = loop[w].ctx
                /\ offset' = offset
                /\ loop'[w].invoked = loop[w].invoked
                /\ loop'[w].delivered = loop[w].delivered
          /\ (Delivers(w) /\ ~Decodable(topic[offset'[w]]))
             => /\ loop'[w].pc = "select"
                /\ loop'[w].invoked = loop[w].invoked
                /\ loop'[w].last = Logged(offset'[w], "undecodable")
                /\ UNCHANGED <<store, sends, workerWrites, handed>>

C25_LogAndContinue == []C25_State /\ [][C25_Step]_vars

\* the email worker failed on the first message, read the bytes that do not
\* decode, and was then invoked for the third message
C25_Witness ==
    /\ redelivered = 0
    /\ lastStatus[1] = StatusFailed
    /\ loop["email"].invoked[1] = 1
    /\ loop["email"].delivered[2] = 1
    /\ loop["email"].invoked[2] = 0
    /\ loop["email"].invoked[3] = 1
    /\ store[2].channel = "email"

\* C26: the consume loop of a worker group returns only once its context is
\* cancelled, and then with the context's cancellation error: a read error, a
\* message that does not decode and a handler error never end it; once the
\* context is cancelled the loop eventually returns.
C26_RunsUntilCancelled ==
    /\ [](\A w \in LoopGroups :
            loop[w].pc = "returned"
            => loop[w].ctx = "cancelled" /\ loop[w].err = "context canceled")
    /\ \A w \in LoopGroups :
          (loop[w].ctx = "cancelled")
          ~> (loop[w].pc = "returned" /\ loop[w].err = "context canceled")

\* the email loop has returned after a handler error, with the bytes that do
\* not decode read and logged before
C26_Witness ==
    /\ loop["email"].pc = "returned"
    /\ loop["email"].err = "context canceled"
    /\ loop["email"].last.result = "error"
    /\ loop["email"].delivered[2] = 1

\* C27: for a message of its own channel the handler returns an error
\* exactly when the fetch of the record fails, the adapter returns an error,
\* or the final status write fails; a failed fetch is followed by no
\* provider call and no status write.
C27_State ==
    \A w \in Channels :
        (loop[w].last.kind = "handler" /\ loop[w].last.own)
        => /\ loop[w].last.result \in {"nil", "error"}
           /\ loop[w].last.result = "error"
              <=> (\/ ~loop[w].last.fetched
                   \/ loop[w].last.sendErr
                   \/ ~loop[w].last.wrote)

C27_Step ==
    \A w \in Channels :
        (loop[w].pc = "fetch" /\ HandlerReturns(w))
        => /\ ~loop'[w].last.fetched
           /\ loop'[w].last.result = "error"
           /\ UNCHANGED <<store, sends, workerWrites, lastStatus, handed>>

C27_FailureIff == []C27_State /\ [][C27_Step]_vars

\* the email worker sent notification 1, the provider accepted it, the
\* status write failed and the handler returned the error
C27_Witness ==
    /\ loop["email"].last.index = 1
    /\ loop["email"].last.own
    /\ loop["email"].last.fetched
    /\ ~loop["email"].last.sendErr
    /\ ~loop["email"].last.wrote
    /\ loop["email"].last.result = "error"
    /\ sends[1] = 1
    /\ store[1].status = StatusPending

\* C28. As stated: whenever the handler of a worker returned an error for a
\* notification, and nothing else wrote to its record, the record has status
\* failed.  A failed fetch, a failed status write after an accepted send and
\* a failed write of the failed status leave the record pending.
C28_ErrorsFolded ==
    \A w \in Channels :
        (/\ loop[w].last.kind = "handler"
         /\ loop[w].last.result = "error"
         /\ ~InHandler(w)
         /\ redelivered = 0
         /\ ~adminWrites[topic[loop[w].last.index].id])
        => store[topic[loop[w].last.index].id].status = StatusFailed

\* C29: a handler given a message of another channel returns nil at once: no
\* fetch, no provider call, no status write, and the store is as it was.
C29_Step ==
    \A w \in Channels :
        (/\ Delivers(w)
         /\ Decodable(topic[offset'[w]])
         /\ topic[offset'[w]].channel # w)
        => /\ loop'[w].pc = "select"
           /\ loop'[w].last = Run(offset'[w], FALSE, FALSE, FALSE, FALSE, 0, "nil")
           /\ loop'[w].invoked[offset'[w]] = loop[w].invoked[offset'[w]] + 1
           /\ UNCHANGED <<store, sends, workerWrites, lastStatus, handed>>

C29_State ==
    \A w \in Channels :
        (loop[w].last.kind = "handler" /\ ~loop[w].last.own)
        => /\ topic[loop[w].last.index].channel # w
           /\ loop[w].last.result = "nil"
           /\ ~loop[w].last.fetched
           /\ loop[w].last.calls = 0
           /\ ~loop[w].last.wrote

C29_OtherChannelIgnored == []C29_State /\ [][C29_Step]_vars

\* the sms worker was given the email message and returned nil; the record
\* is untouched
C29_Witness ==
    /\ loop["sms"].last.index = 1
    /\ loop["sms"].last.result = "nil"
    /\ ~loop["sms"].last.own
    /\ topic[1].channel = "email"
    /\ store[1].status = StatusPending
    /\ sends[1] = 0
    /\ ~handed[1].seen

\* C30. As stated: as long as no message was redelivered, no status write to
\* an identifier lands while a handler is at work on that identifier, and no
\* two handlers are at work on one identifier.  A status-update call writes
\* to the record of a notification while the worker of its channel is
\* between its fetch and its status write.
C30_StateNoRedelivery ==
    redelivered = 0
    => \A k \in Ids : Cardinality({w \in Channels : InFlight(w, k)}) <= 1

C30_StepNoRedelivery ==
    redelivered = 0
    => \A k \in Ids :
          (store'[k] # store[k] /\ \E w \in Channels : InFlight(w, k))
          => \E w \in Channels :
                InFlight(w, k) /\ loop[w].pc = "write" /\ HandlerReturns(w)

C30_State ==
    \A k \in Ids : Cardinality({w \in Channels : InFlight(w, k)}) <= 1

C30_Step ==
    \A k \in Ids :
        (store'[k] # store[k] /\ \E w \in Channels : InFlight(w, k))
        => \/ \E w \in Channels :
                InFlight(w, k) /\ loop[w].pc = "write" /\ HandlerReturns(w)
           \/ updates' = updates + 1

C31_SendLeavesCallerUntouched ==
    (manager.out.routed /\ manager.out.adapter # NoAdapter)
    => manager.out.after = manager.out.notif

\* C32. As stated: a resolution that finds no row returns enabled=true,
\* frequency=immediate and leaves the cache as it was; one that finds a row
\* returns the row's enabled and frequency and leaves a cache entry that
\* expires a fixed time later.  The result of the cache write is dropped, so
\* a resolution that finds a row may leave no entry at all.
C32_ResolutionAsStated ==
    (resolved.userID # "" /\ resolved.err = "")
    => LET row == prefs[<<resolved.userID, resolved.channel>>]
       IN IF row = "none"
          THEN /\ resolved.pref = [enabled |-> TRUE, frequency |-> "immediate"]
               /\ cache = resolved.before
          ELSE /\ resolved.pref.enabled = RowEnabled(row)
               /\ resolved.pref.frequency = RowFrequency(row)
               /\ \E key \in CacheKeys :
                     cache[key] = Entry(resolved.channel, row, resolved.at + CacheTTL)

\* C33: the store is authoritative: whatever the cache holds for the pair
\* (nothing, an entry, a stale entry), a resolution against the same table
\* returns the same preference and the same error, and creation decides the
\* same; the resolution that ran returned what the table says.
C33_StoreAuthoritative ==
    /\ \A u \in Users, c \in Channels, other \in InitialCaches,
          dbOk \in BOOLEAN, setOk \in BOOLEAN :
          LET a == getUserPreferencesCached(prefs, cache, u, c, now, dbOk, setOk)
              b == getUserPreferencesCached(prefs, other, u, c, now, dbOk, setOk)
          IN /\ a.pref = b.pref
             /\ a.err = b.err
             /\ Decision(a) = Decision(b)
    /\ (resolved.userID # "" /\ resolved.err = "")
       => LET row == prefs[<<resolved.userID, resolved.channel>>]
          IN /\ resolved.pref.enabled = (row = "none" \/ RowEnabled(row))
             /\ resolved.decision = IF row = "none" \/ RowEnabled(row)
                                    THEN "insert" ELSE "disabled"

\* the cache held a disabled entry for (u1, email), the table an enabled row:
\* the resolution hit the cache and returned the row of the table
C33_Witness ==
    /\ resolved.channel = "email"
    /\ resolved.hit
    /\ resolved.before[ReadKey("u1", "email")].row = "off"
    /\ prefs[<<"u1", "email">>] = "on_daily"
    /\ resolved.pref = [enabled |-> TRUE, frequency |-> "daily"]
    /\ resolved.decision = "insert"

\* C34. As stated: after a resolution for (u, c) found a row and cached it,
\* a cache check for (u, c) before the expiry is a hit, and the write left
\* the entries of the other channels of u as they were.  The entry is
\* written under the key of the user alone and the check reads the key of
\* the user and the channel.
C34_KeyedByUserAndChannel ==
    (resolved.found /\ resolved.cached /\ now < resolved.at + CacheTTL)
    => /\ CacheHit(cache, ReadKey(resolved.userID, resolved.channel), now)
       /\ \A key \in CacheKeys :
             (resolved.before[key].channel \notin {"", resolved.channel})
             => cache[key] = resolved.before[key]

C36_LastRegisteredRoutes ==
    /\ \A c \in Channels :
          IF manager.registrations[c] = 0
          THEN c \notin DOMAIN manager.channels
          ELSE c \in DOMAIN manager.channels /\ manager.channels[c] = manager.latest[c]
    /\ manager.out.routed
       => IF manager.out.registrations = 0
          THEN manager.out.adapter = NoAdapter
          ELSE /\ manager.out.adapter = manager.out.latest
               /\ manager.out.adapter.type = manager.out.notif.channel
               /\ manager.out.report =
                     SendNotification(manager.out.adapter.type, manager.out.notif.id,
                                      manager.out.resp)

\* the second email adapter was registered over the first, and the routing
\* of an email notification invoked the second
C36_Witness ==
    /\ manager.out.routed
    /\ manager.out.notif.channel = "email"
    /\ manager.first["email"] = [type |-> "email", instance |-> 1]
    /\ manager.out.adapter = [type |-> "email", instance |-> 2]
    /\ manager.out.report.status = StatusSent

\* C37. As stated: a status-update call that names a status, made while the
\* store works, for an identifier that no record has, answers success and
\* changes no record.  An identifier that is not the text of a UUID is
\* rejected by the store and the call answers INTERNAL.
C37_AbsentIdSucceeds ==
    (/\ exchange.made
     /\ exchange.absent
     /\ exchange.dbOk
     /\ exchange.id # EmptyId
     /\ exchange.status # "UNSPECIFIED")
    => exchange.response = "OK" /\ ~exchange.changed

\* C38: the handler sends whatever the status of the record it fetched: a
\* fetch that succeeds is followed by exactly one provider call and by a
\* status write that overwrites the record, so a message delivered twice is
\* sent twice and a record cancelled by a status-update call is sent and
\* overwritten.
C38_State ==
    \A k \in Ids : \A i \in MessagesOf(k) : \A w \in Channels :
        store[k].channel = w => sends[k] <= loop[w].delivered[i]

C38_Step ==
    \A w \in Channels :
        /\ (loop[w].pc = "fetch" /\ loop'[w].pc # "fetch")
           => loop'[w].pc = "send" \/ ~loop'[w].last.fetched
        /\ (loop[w].pc = "send" /\ loop'[w].pc # "send")
           => /\ loop'[w].pc = "write"
              /\ sends'[Current(w).id] = sends[Current(w).id] + 1
        /\ (loop[w].pc = "write" /\ HandlerReturns(w) /\ loop'[w].last.wrote)
           => store'[Current(w).id].status = WorkerStatus(loop[w].report)

C38_SendsWhateverTheStatus == []C38_State /\ [][C38_Step]_vars

\* notification 1 was written by a status-update call, its message was
\* delivered twice, the provider was called twice and the record is sent
C38_Witness ==
    /\ redelivered = 1
    /\ sends[1] = 2
    /\ adminWrites[1]
    /\ lastStatus[1] = StatusSent
    /\ store[1].status = StatusSent

\* C39: a status update changes one record, and in it only status,
\* external_id, error_message and updated_at, sent_at when the status
\* written is sent and delivered_at when it is delivered; no record appears
\* or disappears, and retry_count is 0 in every record.
C39_State == \A k \in DOMAIN store : store[k].retryCount = 0

C39_Step ==
    /\ DOMAIN store' = DOMAIN store
    /\ \A k \in DOMAIN store :
          store'[k] # store[k]
          => /\ \A j \in DOMAIN store \ {k} : store'[j] = store[j]
             /\ store'[k].id = store[k].id
             /\ store'[k].userID = store[k].userID
             /\ store'[k].channel = store[k].channel
             /\ store'[k].recipient = store[k].recipient
             /\ store'[k].subject = store[k].subject
             /\ store'[k].body = store[k].body
             /\ store'[k].scheduledAt = store[k].scheduledAt
             /\ store'[k].createdAt = store[k].createdAt
             /\ store'[k].retryCount = store[k].retryCount
             /\ store'[k].sentAt # store[k].sentAt => store'[k].status = StatusSent
             /\ store'[k].deliveredAt # store[k].deliveredAt
                => store'[k].status = StatusDelivered

C39_UpdateFrame == []C39_State /\ [][C39_Step]_vars

\* notification 1 was sent by its worker and then marked delivered by a
\* status-update call; notification 2 is as it was created
C39_Witness ==
    /\ workerWrites[1]
    /\ adminWrites[1]
    /\ store[1].status = StatusDelivered
    /\ store[1].sentAt # NoTime
    /\ store[1].deliveredAt # NoTime
    /\ store[1].retryCount = 0
    /\ store[2].status = StatusPending

\* C40. As stated: once the provider has accepted the send of a
\* notification, its record eventually has status sent.  When the status
\* write fails the handler returns the error, the loop logs it, and the
\* record stays pending for ever.
C40_SentEventuallyRecorded ==
    \A k \in Ids : \A w \in LoopGroups :
        (/\ InFlight(w, k)
         /\ loop[w].pc = "write"
         /\ loop[w].report.err = ""
         /\ loop[w].report.status = StatusSent)
        ~> (store[k].status = StatusSent)

=============================================================================
